---- MODULE Spec2Model ----
(***************************************************************************)
(* Model of the AI Interviewer session orchestration:                      *)
(*   src/ai_interviewer/controller.py  InterviewController                 *)
(*   src/ai_interviewer/transcript.py  TranscriptManager                   *)
(*   src/ai_interviewer/meet.py        MeetClient.session                  *)
(* Texts are sequences of tokens; the token " " is whitespace.             *)
(* A worker is one threading.Thread running _run/_async_run; every await   *)
(* or blocking call of _async_run is one step of that worker.              *)
(***************************************************************************)
EXTENDS Integers, Sequences, FiniteSets, TLC

\* ---------------------------------------------------------------- bounds
MaxWorkers == 2      \* Thread objects created over the life of a controller
MaxSteps == 2        \* longest plan the generation capability returns
MaxFollowups == 1    \* most follow-ups of one step
NumCallers == 2      \* threads that may call start()
MaxFrames == 3       \* most buffers the capture device delivers
MaxItems == 2        \* most items of a plan array in a reply
MaxControllers == 2  \* InterviewController objects one window creates

WorkerIds == 1..MaxWorkers
CallerIds == 1..NumCallers

\* ------------------------------------------------------------- settings
interviewer_name == "AI Interviewer"
candidate_name == "Candidate"

\* ---------------------------------------------------------------- texts
WS == " "

RECURSIVE LStrip(_)
LStrip(t) == IF t # <<>> /\ Head(t) = WS THEN LStrip(Tail(t)) ELSE t

RECURSIVE RStrip(_)
RStrip(t) ==
    IF t # <<>> /\ t[Len(t)] = WS THEN RStrip(SubSeq(t, 1, Len(t) - 1)) ELSE t

\* str.strip()
Strip(t) == RStrip(LStrip(t))

\* sep.join(parts)
RECURSIVE Join(_, _)
Join(sep, parts) ==
    IF parts = <<>> THEN <<>>
    ELSE IF Len(parts) = 1 THEN parts[1]
    ELSE parts[1] \o <<sep>> \o Join(sep, Tail(parts))

\* f"{speaker}: {text.strip()}"
Line(speaker, text) == <<speaker, ": ">> \o Strip(text)

\* append that stores the text as given.
append_Unstripped(entries, speaker, text) == Append(entries, <<speaker, ": ">> \o text)

\* TranscriptManager.append: the new value of _entries
append(entries, speaker, text) == Append(entries, Line(speaker, text))

\* "\n".join(transcript._entries): the file content and the sink's argument
Rendering(entries) == Join("\n", entries)

\* f"(Optional follow-up) {follow}"
FollowupText(follow) == <<"(Optional follow-up) ">> \o follow

\* f"[Transcription unavailable: {exc}]"
Placeholder == <<"[Transcription unavailable: ", "faster-whisper is not installed", "]">>

\* TranscriptManager.transcribe_audio on the recognised segments
TranscribeText(segments) ==
    Strip(Join(WS, [k \in 1..Len(segments) |-> Strip(segments[k])]))

SegmentLists == { <<>>, << <<WS, "yes">>, <<"I", WS>> >> }

\* ---------------------------------------------------------------- plans
\* The question of step k: k tokens "q" between blanks.
QuestionOf(k) == <<WS>> \o [x \in 1..k |-> "q"] \o <<WS>>

\* n follow-ups; the x-th is x tokens "f" and a trailing blank.
FollowupsOf(n) == [x \in 1..n |-> [y \in 1..x |-> "f"] \o <<WS>>]

\* InterviewStep lists flow.build() may return (whatever the model answered):
\* n steps with f follow-ups each.
Plans ==
    { [k \in 1..n |-> [question |-> QuestionOf(k), followups |-> FollowupsOf(f)]]
      : n \in 0..MaxSteps, f \in 0..MaxFollowups }


\* -------------------------------------------------------------- replies
\* A reply of the generation capability is a sequence of tokens: the fence,
\* a language tag, blanks (WS stands for any white space), words of prose,
\* brackets, commas and the objects "{A}" and "{B}".
fence == "<fence>"     \* the three backquotes

ItemTokens == {"{A}", "{B}"}

\* The object an item token denotes: "{A}" has every key, "{B}" has only the
\* question.
Object(token) ==
    IF token = "{A}"
    THEN [title |-> <<"Welcome">>, question |-> <<"qA">>, followups |-> << <<"f">> >>]
    ELSE [question |-> <<"qB">>]

\* json.dumps of a list of objects, with or without blanks between the tokens
RECURSIVE Dumps(_, _)
Dumps(items, spaced) ==
    IF items = <<>> THEN <<>>
    ELSE IF Len(items) = 1 THEN <<items[1]>>
    ELSE <<items[1], ",">> \o (IF spaced THEN <<WS>> ELSE <<>>)
         \o Dumps(Tail(items), spaced)

ItemLists == UNION { [1..n -> ItemTokens] : n \in 0..MaxItems }

Arrays == { <<"[">> \o Dumps(items, spaced) \o <<"]">> :
              items \in ItemLists, spaced \in BOOLEAN }

\* What the model may put around the array.
ProseBefore ==
    { <<>>, <<"Here", WS, "it", WS, "is:", WS>>, <<"[", "plan", "]", WS>>,
      <<"[", "{B}", "]", WS>> }
ProseAfter == { <<>>, <<WS, "Good", WS, "luck!">> }
Tags == { <<>>, <<"json">> }

Replies ==
    { r \in { [before |-> b, fenced |-> f, tag |-> t, array |-> a, after |-> e] :
                b \in ProseBefore, f \in BOOLEAN, t \in Tags, a \in Arrays,
                e \in ProseAfter } :
        r.fenced \/ r.tag = <<>> }

\* response.content of a reply: the array alone, or inside a fenced block with
\* an optional language tag, with the prose around it
Content(reply) ==
    reply.before
    \o (IF reply.fenced THEN <<fence>> \o reply.tag \o <<WS>> ELSE <<>>)
    \o reply.array
    \o (IF reply.fenced THEN <<WS, fence>> ELSE <<>>)
    \o reply.after

NoReply == [before |-> <<>>, fenced |-> FALSE, tag |-> <<>>, array |-> <<>>,
            after |-> <<>>]

\* str.split(fence)
RECURSIVE Split(_)
Split(text) ==
    IF \A k \in 1..Len(text) : text[k] # fence THEN <<text>>
    ELSE LET k == CHOOSE x \in 1..Len(text) :
                    text[x] = fence /\ \A y \in 1..(x - 1) : text[y] # fence
         IN <<SubSeq(text, 1, k - 1)>> \o Split(SubSeq(text, k + 1, Len(text)))

\* json.loads on a text of this alphabet: ok is FALSE for JSONDecodeError;
\* blanks are allowed around the array and between its tokens
json_loads(text) ==
    LET t == Strip(text)
        inner == SelectSeq(SubSeq(t, 2, Len(t) - 1), LAMBDA x : x # WS)
        wellformed ==
            /\ Len(t) >= 2 /\ t[1] = "[" /\ t[Len(t)] = "]"
            /\ \/ inner = <<>>
               \/ /\ Len(inner) % 2 = 1
                  /\ \A k \in 1..Len(inner) :
                        IF k % 2 = 1 THEN inner[k] \in ItemTokens
                                     ELSE inner[k] = ","
    IN IF wellformed
       THEN [ok |-> TRUE,
             data |-> [k \in 1..((Len(inner) + 1) \div 2) |-> Object(inner[2 * k - 1])]]
       ELSE [ok |-> FALSE, data |-> <<>>]

\* None, as _extract_json_block returns it; build() tests it with "not cleaned"
None == <<>>

\* interview_flow.py:84-93  _extract_json_block: the first part between
\* fences that, stripped, starts with "[" and ends with "]"
extract_json_block(text) ==
    IF \A k \in 1..Len(text) : text[k] # fence THEN None
    ELSE LET parts == Split(text)
             candidate(k) == Strip(parts[k])
             hits == { k \in 1..Len(parts) :
                         /\ candidate(k) # <<>>
                         /\ candidate(k)[1] = "["
                         /\ candidate(k)[Len(candidate(k))] = "]" }
         IN IF hits = {} THEN None
            ELSE candidate(CHOOSE k \in hits : \A h \in hits : k <= h)

\* item.get(key, default)
Get(item, key, default) == IF key \in DOMAIN item THEN item[key] ELSE default

\* interview_flow.py:73-80  the InterviewStep of each item
Steps(data) ==
    [idx \in 1..Len(data) |->
        [title |-> Get(data[idx], "title", <<"Step ", idx>>),
         question |-> Get(data[idx], "question", <<>>),
         followups |-> Get(data[idx], "followups", <<>>)]]

\* interview_flow.py:62-82  build() on response.content: the steps it returns,
\* or the exception it raises
build(raw) ==
    LET first == json_loads(raw)
    IN IF first.ok THEN [status |-> "ok", steps |-> Steps(first.data)]
       ELSE LET cleaned == extract_json_block(raw)
            IN IF cleaned = None
               THEN [status |-> "LLMClientError", steps |-> <<>>]
               ELSE LET second == json_loads(cleaned)
                    IN IF second.ok
                       THEN [status |-> "ok", steps |-> Steps(second.data)]
                       ELSE [status |-> "JSONDecodeError", steps |-> <<>>]

\* interview_flow.py:25-37  InterviewFlow before build()
FlowNew(reply) == [reply |-> reply, status |-> "none", steps |-> <<>>]

\* ---------------------------------------------------------------- state
VARIABLES
    stop_event,   \* InterviewController._stop_event
    thread,       \* InterviewController._thread: a worker id, 0 for None
    nthreads,     \* Thread objects created so far
    workers,      \* the state of each Thread / _async_run invocation
    cpc,          \* position of each caller inside start()
    result,       \* outcome of each caller's last start() call
    env,          \* the environment of the controller: the threads that call
                  \* start(), whether collaborators can fail, the plans the
                  \* generation capability can return, settings.llm
    file,         \* content of settings.transcript_path
    flow,         \* an InterviewFlow: the reply of the generation capability
                  \* and what build() made of it
    rec,          \* a SystemAudioRecorder with its device stream, its writer
                  \* thread and the thread that calls start() and stop()
    cutoff,       \* per worker: the first step whose boundary check had not
                  \* happened at the first stop() of its session, 0 if none
    gui,          \* the InterviewWindow and the controllers it has created
    since         \* what happened to the flag last: "none" before any start(),
                  \* "clean" or "erased" after a clear() that found it unset or
                  \* set, "stopped" after a stop()

vars == <<stop_event, thread, nthreads, workers, cpc, result, env, rec, flow, file,
          cutoff, since, gui>>

\* A Thread object that does not exist yet.
Unborn ==
    [pc |-> "unborn", steps |-> <<>>, i |-> 1, j |-> 1, entries |-> <<>>,
     exc |-> "none", bridge |-> "none", playwright |-> "none",
     browser |-> "none", acquired |-> FALSE,
     closing |-> "none", left |-> "none", candidate_text |-> <<>>,
     status |-> <<>>, transcript_out |-> <<>>, summary_out |-> FALSE,
     processed |-> <<>>, spoken |-> <<>>, loop_end |-> "none",
     transcribe_failed |-> FALSE, summary_invoked |-> FALSE,
     outcome |-> "none", events |-> <<>>]

\* A finished Thread object the controller no longer references.
Reaped == [Unborn EXCEPT !.pc = "reaped"]

\* threading.Thread.is_alive()
is_alive(w) == workers[w].pc \notin {"unborn", "created", "done", "reaped"}

AliveWorkers == { w \in WorkerIds : is_alive(w) }

\* audio.py:17-32  SystemAudioRecorder.__init__.  frames counts the buffers the
\* device has delivered; at_stop is the content of the queue at the call of
\* stop(), kept for the properties.
RecorderNew ==
    [queue |-> <<>>, stream |-> "none", writer |-> "none", running |-> FALSE,
     wpc |-> "none", data |-> 0, written |-> <<>>, frames |-> 0,
     upc |-> "new", stop_called |-> FALSE, at_stop |-> <<>>]

ControllerIds == 1..MaxControllers

\* controller.py:29-38  an InterviewController the window has not created yet;
\* pc is the position of its worker thread, n the length of its plan, i the
\* step the loop is at
ControllerNew ==
    [stop_event |-> FALSE, thread |-> "none", pc |-> "none", n |-> 0, i |-> 1]

\* main.py:29-37  InterviewWindow.__init__: self.controller = None (0);
\* log is the last message the window showed
WindowNew ==
    [controller |-> 0, created |-> 0, log |-> "none",
     ctl |-> [k \in ControllerIds |-> ControllerNew]]

InitCommon ==
    /\ stop_event = FALSE
    /\ thread = 0
    /\ nthreads = 0
    /\ workers = [w \in WorkerIds |-> Unborn]
    /\ cpc = [c \in CallerIds |-> "idle"]
    /\ result = [c \in CallerIds |-> "none"]
    /\ file = <<>>
    /\ cutoff = [w \in WorkerIds |-> 0]
    /\ since = "none"
    /\ gui = WindowNew
    /\ rec = RecorderNew

\* LLMProviderConfig as the GUI builds it: api_key is the typed key or None.
NoKey == "None"

ProviderConfigs == { [provider |-> "openai", api_key |-> k] : k \in {NoKey, "sk-1"} }

\* start() is called from one thread (the GUI thread of src/app/main.py);
\* every external capability can fail.
Init ==
    /\ InitCommon
    /\ \E cfg \in ProviderConfigs :
         env = [starters |-> {1}, faults |-> TRUE, plans |-> Plans, llm |-> cfg]
    /\ flow = FlowNew(NoReply)

\* start() is called from several threads; the collaborators do not fail and
\* the plan has one step.
InitMT ==
    /\ InitCommon
    /\ env = [starters |-> CallerIds, faults |-> FALSE,
              plans |-> { p \in Plans : Len(p) = 1 },
              llm |-> [provider |-> "openai", api_key |-> "sk-1"]]
    /\ flow = FlowNew(NoReply)

\* The outcomes of a call of an external capability: TRUE when it returns.
Outcomes == IF env.faults THEN BOOLEAN ELSE {TRUE}

\* ------------------------------------------- InterviewController.start
\* Callers that passed the check of start() and have not created a Thread yet.
Inflight == { c \in CallerIds : cpc[c] \in {"checked", "ensured", "cleared"} }

\* StartCheck without the is_alive test: start() never rejects.
StartCheck_NoAliveTest(c) ==
    /\ c \in env.starters
    /\ cpc[c] = "idle"
    /\ nthreads + Cardinality(Inflight) < MaxWorkers
    /\ cpc' = [cpc EXCEPT ![c] = "checked"]
    /\ result' = [result EXCEPT ![c] = "none"]
    /\ UNCHANGED <<stop_event, thread, nthreads, workers, env, rec, flow, file,
                   cutoff, since, gui>>

\* controller.py:41-42  if self._thread and self._thread.is_alive(): raise
StartCheck(c) ==
    /\ c \in env.starters
    /\ cpc[c] = "idle"
    /\ IF thread # 0 /\ is_alive(thread)
       THEN /\ result' = [result EXCEPT ![c] = "already_running"]
            /\ UNCHANGED cpc
       ELSE /\ nthreads + Cardinality(Inflight) < MaxWorkers
            /\ cpc' = [cpc EXCEPT ![c] = "checked"]
            /\ result' = [result EXCEPT ![c] = "none"]
    /\ UNCHANGED <<stop_event, thread, nthreads, workers, env, rec, flow, file,
                   cutoff, since, gui>>

\* controller.py:43  self.settings.ensure_paths()
StartEnsure(c) ==
    /\ cpc[c] = "checked"
    /\ \E ok \in Outcomes :
         IF ok
         THEN /\ cpc' = [cpc EXCEPT ![c] = "ensured"]
              /\ UNCHANGED result
         ELSE /\ cpc' = [cpc EXCEPT ![c] = "idle"]
              /\ result' = [result EXCEPT ![c] = "os_error"]
    /\ UNCHANGED <<stop_event, thread, nthreads, workers, env, rec, flow, file,
                   cutoff, since, gui>>

\* start() that leaves the flag as it finds it.
StartClear_KeepsFlag(c) ==
    /\ cpc[c] = "ensured"
    /\ since' = IF stop_event THEN "erased" ELSE "clean"
    /\ cpc' = [cpc EXCEPT ![c] = "cleared"]
    /\ UNCHANGED <<stop_event, thread, nthreads, workers, result, env, rec,
                   flow, file, cutoff, gui>>

\* controller.py:44  self._stop_event.clear()
StartClear(c) ==
    /\ cpc[c] = "ensured"
    /\ stop_event' = FALSE
    /\ since' = IF stop_event THEN "erased" ELSE "clean"
    /\ cpc' = [cpc EXCEPT ![c] = "cleared"]
    /\ UNCHANGED <<thread, nthreads, workers, result, env, rec, flow, file,
                   cutoff, gui>>

\* controller.py:45  self._thread = threading.Thread(target=self._run, ...)
\* The finished Thread the attribute referred to becomes garbage.
StartCreate(c) ==
    /\ cpc[c] = "cleared"
    /\ LET new == nthreads + 1
           old == thread
           drop == old # 0 /\ workers[old].pc = "done"
       IN /\ nthreads' = new
          /\ thread' = new
          /\ workers' = [w \in WorkerIds |->
                           IF w = new THEN [Unborn EXCEPT !.pc = "created"]
                           ELSE IF drop /\ w = old THEN Reaped
                           ELSE workers[w]]
          /\ cutoff' = [w \in WorkerIds |->
                           IF drop /\ w = old THEN 0 ELSE cutoff[w]]
    /\ cpc' = [cpc EXCEPT ![c] = "created"]
    /\ UNCHANGED <<stop_event, result, env, rec, flow, file, since, gui>>

\* controller.py:46  self._thread.start()
\* Thread.start() raises RuntimeError when the thread was started before.
StartLaunch(c) ==
    /\ cpc[c] = "created"
    /\ IF workers[thread].pc = "created"
       THEN /\ workers' = [workers EXCEPT ![thread].pc = "parse"]
            /\ result' = [result EXCEPT ![c] = "ok"]
       ELSE /\ result' = [result EXCEPT ![c] = "thread_error"]
            /\ UNCHANGED workers
    /\ cpc' = [cpc EXCEPT ![c] = "idle"]
    /\ UNCHANGED <<stop_event, thread, nthreads, env, rec, flow, file,
                   cutoff, since, gui>>

\* -------------------------------------------- InterviewController.stop
\* The pcs at which a step of the plan is in flight.
StepPcs == {"ask", "speak", "follow", "settle", "wait"}

\* The pcs from which the boundary check of step i is still to come.
BeforeCheckPcs ==
    {"parse", "build", "setup", "bridge_start", "mkdir", "launch",
     "navigate", "connected", "check"}

\* stop that also breaks off the step in flight.
stop_Aborts ==
    /\ stop_event' = TRUE
    /\ since' = "stopped"
    /\ cutoff' = [w \in WorkerIds |->
                    IF cutoff[w] # 0 THEN cutoff[w]
                    ELSE IF workers[w].pc \in StepPcs THEN workers[w].i + 1
                    ELSE IF workers[w].pc \in BeforeCheckPcs THEN workers[w].i
                    ELSE 0]
    /\ workers' = [w \in WorkerIds |->
                     IF workers[w].pc \in StepPcs
                     THEN [workers[w] EXCEPT !.pc = "closing",
                                             !.loop_end = "cancelled"]
                     ELSE workers[w]]
    /\ UNCHANGED <<thread, nthreads, cpc, result, env, rec, flow, file,
                   gui>>

\* stop that toggles the flag instead of setting it.
stop_Toggles ==
    /\ stop_event' = ~stop_event
    /\ since' = "stopped"
    /\ cutoff' = [w \in WorkerIds |->
                    IF cutoff[w] # 0 THEN cutoff[w]
                    ELSE IF workers[w].pc \in StepPcs THEN workers[w].i + 1
                    ELSE IF workers[w].pc \in BeforeCheckPcs THEN workers[w].i
                    ELSE 0]
    /\ UNCHANGED <<thread, nthreads, workers, cpc, result, env, rec, flow, file,
                   gui>>

\* controller.py:48-49  self._stop_event.set()
stop ==
    /\ stop_event' = TRUE
    /\ since' = "stopped"
    /\ cutoff' = [w \in WorkerIds |->
                    IF cutoff[w] # 0 THEN cutoff[w]
                    ELSE IF workers[w].pc \in StepPcs THEN workers[w].i + 1
                    ELSE IF workers[w].pc \in BeforeCheckPcs THEN workers[w].i
                    ELSE 0]
    /\ UNCHANGED <<thread, nthreads, workers, cpc, result, env, rec, flow, file,
                   gui>>

\* ------------------------------------- InterviewController._async_run
Frame == UNCHANGED <<stop_event, thread, nthreads, cpc, result, env, rec, flow,
                     cutoff, since, gui>>

Put(w, r) == workers' = [workers EXCEPT ![w] = r]

\* controller.py:51-53  _emit_status
\* History of the calls _async_run has made, in program order:
\* <<operation, speaker, text>>, kept for the properties.
Log(r, op, speaker, text) == [r EXCEPT !.events = Append(@, <<op, speaker, text>>)]

emit_status(r, message) == [r EXCEPT !.status = Append(@, message)]

\* controller.py:55-57  _emit_transcript("\n".join(transcript._entries))
emit_transcript(r) == [r EXCEPT !.transcript_out = Rendering(r.entries)]

\* An exception leaves _async_run: asyncio.run re-raises it and the thread ends.
Die(r) == [r EXCEPT !.pc = "done", !.exc = "error", !.outcome = "raised"]

\* An exception raised inside the body of `async with meet.session()`.
FaultInSession(r) == [r EXCEPT !.pc = "session_exit", !.exc = "error"]

\* controller.py:68-70  status, extract_text, LLMClient
ParseCV(w) ==
    /\ workers[w].pc = "parse"
    /\ LET r == emit_status(workers[w], "Parsing CV document")
       IN \E ok \in Outcomes :
            Put(w, IF ok THEN [r EXCEPT !.pc = "build"] ELSE Die(r))
    /\ Frame /\ UNCHANGED file

\* _require_api_key that accepts a missing key.
require_api_key_Lenient(config) == TRUE

\* llm.py:28-33  LLMClient._require_api_key: TRUE when it returns the key,
\* FALSE when it raises LLMClientError
require_api_key(config) == config.api_key # NoKey

\* controller.py:71-78  status, InterviewFlow(...).build(); build() calls
\* llm.generate (interview_flow.py:61), whose provider branch starts with
\* _require_api_key (llm.py:66, 95, 121)
BuildFlow(w) ==
    /\ workers[w].pc = "build"
    /\ LET r == emit_status(workers[w], "Generating interview flow with LLM")
       IN IF ~require_api_key(env.llm)
          THEN Put(w, [Die(r) EXCEPT !.exc = "api_key_required"])
          ELSE \E ok \in Outcomes, plan \in env.plans :
                 Put(w, IF ok THEN [r EXCEPT !.pc = "setup", !.steps = plan]
                              ELSE Die(r))
    /\ Frame /\ UNCHANGED file

\* controller.py:79-82  TranscriptManager, SystemAudioRecorder,
\* TextToSpeechEngine (imports pyttsx3), AudioBridge
Setup(w) ==
    /\ workers[w].pc = "setup"
    /\ \E ok \in Outcomes :
         Put(w, IF ok THEN [workers[w] EXCEPT !.pc = "bridge_start",
                                              !.entries = <<>>]
                      ELSE Die(workers[w]))
    /\ Frame /\ UNCHANGED file

\* _async_run that goes on to the connection without starting the bridge.
BridgeStart_Skipped(w) ==
    /\ workers[w].pc = "bridge_start"
    /\ Put(w, [workers[w] EXCEPT !.pc = "mkdir"])
    /\ Frame /\ UNCHANGED file

\* controller.py:83  bridge.start()
BridgeStart(w) ==
    /\ workers[w].pc = "bridge_start"
    /\ \E ok \in Outcomes :
         Put(w, IF ok THEN [workers[w] EXCEPT !.pc = "mkdir",
                                              !.bridge = "running"]
                      ELSE Die(workers[w]))
    /\ Frame /\ UNCHANGED file

\* controller.py:84-91  video_dir.mkdir, MeetClient(...)
MakeVideoDir(w) ==
    /\ workers[w].pc = "mkdir"
    /\ \E ok \in Outcomes :
         Put(w, IF ok THEN [workers[w] EXCEPT !.pc = "launch"]
                      ELSE Die(workers[w]))
    /\ Frame /\ UNCHANGED file

\* controller.py:92-93, meet.py:34-42  async_playwright(), chromium.launch
Launch(w) ==
    /\ workers[w].pc = "launch"
    /\ \E ok \in Outcomes :
         Put(w, IF ok THEN [workers[w] EXCEPT !.pc = "navigate",
                                              !.playwright = "running",
                                              !.browser = "open"]
                      ELSE [workers[w] EXCEPT !.pc = "bridge_stop",
                                              !.exc = "error"])
    /\ Frame /\ UNCHANGED file

\* meet.py:43-51  new_context, new_page, goto, _handle_prejoin, yield.
\* A fault here is outside the try of session(): only async_playwright exits.
Navigate(w) ==
    /\ workers[w].pc = "navigate"
    /\ \E ok \in Outcomes :
         Put(w, IF ok THEN [workers[w] EXCEPT !.pc = "connected",
                                              !.acquired = TRUE]
                      ELSE [workers[w] EXCEPT !.pc = "bridge_stop",
                                              !.playwright = "stopped",
                                              !.exc = "error"])
    /\ Frame /\ UNCHANGED file

\* controller.py:94  status "Connected to Google Meet..."
Connected(w) ==
    /\ workers[w].pc = "connected"
    /\ Put(w, [emit_status(workers[w], "Connected to Google Meet")
                 EXCEPT !.pc = "check", !.i = 1])
    /\ Frame /\ UNCHANGED file

\* LoopCheck that reads the stop flag only before the first step.
LoopCheck_ChecksOnce(w) ==
    /\ workers[w].pc = "check"
    /\ Put(w, IF workers[w].i > Len(workers[w].steps)
              THEN [workers[w] EXCEPT !.pc = "closing", !.loop_end = "exhausted"]
              ELSE IF stop_event /\ workers[w].i = 1
              THEN [workers[w] EXCEPT !.pc = "closing", !.loop_end = "cancelled"]
              ELSE [workers[w] EXCEPT !.pc = "ask"])
    /\ Frame /\ UNCHANGED file

\* a loop that does not end when the plan is exhausted.
LoopCheck_NeverExhausts(w) ==
    /\ workers[w].pc = "check"
    /\ workers[w].i <= Len(workers[w].steps) \/ stop_event
    /\ Put(w, IF stop_event
              THEN [workers[w] EXCEPT !.pc = "closing", !.loop_end = "cancelled"]
              ELSE [workers[w] EXCEPT !.pc = "ask"])
    /\ Frame /\ UNCHANGED file

\* controller.py:95-97  for step in steps: if self._stop_event.is_set(): break
LoopCheck(w) ==
    /\ workers[w].pc = "check"
    /\ Put(w, IF workers[w].i > Len(workers[w].steps)
              THEN [workers[w] EXCEPT !.pc = "closing", !.loop_end = "exhausted"]
              ELSE IF stop_event
              THEN [workers[w] EXCEPT !.pc = "closing", !.loop_end = "cancelled"]
              ELSE [workers[w] EXCEPT !.pc = "ask"])
    /\ Frame /\ UNCHANGED file

\* controller.py:98-100  transcript.append(interviewer, prompt); emit transcript
AskAppend(w) ==
    /\ workers[w].pc = "ask"
    /\ LET r == workers[w]
           prompt == r.steps[r.i].question
           es == append(r.entries, interviewer_name, prompt)
           r1 == Log(Log(r, "append", interviewer_name, prompt),
                     "notify", "", Rendering(es))
       IN /\ Put(w, emit_transcript([r1 EXCEPT !.entries = es,
                                               !.processed = Append(@, r.i),
                                               !.pc = "speak"]))
          /\ file' = Rendering(es)
    /\ Frame

\* controller.py:101  bridge.ask(prompt)
Speak(w) ==
    /\ workers[w].pc = "speak"
    /\ LET r == workers[w]
           prompt == r.steps[r.i].question
       IN \E ok \in Outcomes :
            Put(w, IF ok THEN [Log(r, "speak", "", prompt)
                                 EXCEPT !.pc = "follow", !.j = 1,
                                        !.spoken = Append(@, prompt)]
                         ELSE [FaultInSession(r) EXCEPT !.loop_end = "fault"])
    /\ Frame /\ UNCHANGED file

\* Followup that also speaks each follow-up.
Followup_Spoken(w) ==
    /\ workers[w].pc = "follow"
    /\ LET r == workers[w]
           fs == r.steps[r.i].followups
       IN IF r.j <= Len(fs)
          THEN LET es == append(r.entries, interviewer_name,
                                FollowupText(fs[r.j]))
                   r1 == Log(Log(r, "append", interviewer_name, FollowupText(fs[r.j])),
                             "speak", "", FollowupText(fs[r.j]))
               IN /\ Put(w, [r1 EXCEPT !.entries = es, !.j = r.j + 1,
                                       !.spoken = Append(@, FollowupText(fs[r.j]))])
                  /\ file' = Rendering(es)
          ELSE /\ Put(w, [r EXCEPT !.pc = "settle", !.j = 1])
               /\ UNCHANGED file
    /\ Frame

\* Followup that appends the annotations under the candidate's label.
Followup_AsCandidate(w) ==
    /\ workers[w].pc = "follow"
    /\ LET r == workers[w]
           fs == r.steps[r.i].followups
       IN IF r.j <= Len(fs)
          THEN LET es == append(r.entries, candidate_name,
                                FollowupText(fs[r.j]))
                   r1 == Log(r, "append", candidate_name, FollowupText(fs[r.j]))
               IN /\ Put(w, [r1 EXCEPT !.entries = es, !.j = r.j + 1])
                  /\ file' = Rendering(es)
          ELSE /\ Put(w, [r EXCEPT !.pc = "settle", !.j = 1])
               /\ UNCHANGED file
    /\ Frame

\* controller.py:102-103  for follow in step.followups: transcript.append(...)
Followup(w) ==
    /\ workers[w].pc = "follow"
    /\ LET r == workers[w]
           fs == r.steps[r.i].followups
       IN IF r.j <= Len(fs)
          THEN LET es == append(r.entries, interviewer_name,
                                FollowupText(fs[r.j]))
                   r1 == Log(r, "append", interviewer_name, FollowupText(fs[r.j]))
               IN /\ Put(w, [r1 EXCEPT !.entries = es, !.j = r.j + 1])
                  /\ file' = Rendering(es)
          ELSE /\ Put(w, [r EXCEPT !.pc = "settle", !.j = 1])
               /\ UNCHANGED file
    /\ Frame

\* controller.py:104  await page.wait_for_timeout(1000)
Settle(w) ==
    /\ workers[w].pc = "settle"
    /\ \E ok \in Outcomes :
         Put(w, IF ok THEN [Log(workers[w], "settle", "", <<>>) EXCEPT !.pc = "wait"]
                      ELSE [FaultInSession(workers[w])
                              EXCEPT !.loop_end = "fault"])
    /\ Frame /\ UNCHANGED file

\* controller.py:105-106  status "Waiting..."; await asyncio.sleep(20)
ResponseWindow(w) ==
    /\ workers[w].pc = "wait"
    /\ Put(w, [emit_status(Log(workers[w], "window", "", <<>>),
                            "Waiting for candidate response")
                 EXCEPT !.pc = "check", !.i = workers[w].i + 1])
    /\ Frame /\ UNCHANGED file

\* controller.py:107  await meet.send_chat_message("Thank you ...")
Closing(w) ==
    /\ workers[w].pc = "closing"
    /\ \E ok \in Outcomes :
         Put(w, IF ok THEN [workers[w] EXCEPT !.pc = "leave",
                                              !.closing = "sent"]
                      ELSE [FaultInSession(workers[w])
                              EXCEPT !.closing = "failed"])
    /\ Frame /\ UNCHANGED file

\* controller.py:108  await meet.leave()
Leave(w) ==
    /\ workers[w].pc = "leave"
    /\ \E ok \in Outcomes :
         Put(w, IF ok THEN [workers[w] EXCEPT !.pc = "session_exit",
                                              !.left = "done"]
                      ELSE [FaultInSession(workers[w])
                              EXCEPT !.left = "failed"])
    /\ Frame /\ UNCHANGED file

\* meet.py:52-54  finally: context.close(); browser.close(); then the exit of
\* async_playwright()
SessionExit(w) ==
    /\ workers[w].pc = "session_exit"
    /\ \E ok \in Outcomes :
         Put(w, IF ok THEN [workers[w] EXCEPT !.pc = "bridge_stop",
                                              !.browser = "closed",
                                              !.playwright = "stopped"]
                      ELSE [workers[w] EXCEPT !.pc = "bridge_stop",
                                              !.playwright = "stopped",
                                              !.exc = "error"])
    /\ Frame /\ UNCHANGED file

\* controller.py:109-110  finally: bridge.stop()
BridgeStop(w) ==
    /\ workers[w].pc = "bridge_stop"
    /\ \E ok \in Outcomes :
         Put(w, IF ~ok THEN Die([workers[w] EXCEPT !.bridge = "stop_failed"])
                ELSE IF workers[w].exc # "none"
                THEN Die([workers[w] EXCEPT !.bridge = "stopped"])
                ELSE [workers[w] EXCEPT !.bridge = "stopped",
                                        !.pc = "transcribe"])
    /\ Frame /\ UNCHANGED file

\* Transcribe without the except clause: the failure leaves _async_run.
Transcribe_Propagates(w) ==
    /\ workers[w].pc = "transcribe"
    /\ \E ok \in Outcomes, segments \in SegmentLists :
         Put(w, IF ok
                THEN [workers[w] EXCEPT !.pc = "candidate",
                                        !.candidate_text = TranscribeText(segments)]
                ELSE Die([workers[w] EXCEPT !.transcribe_failed = TRUE]))
    /\ Frame /\ UNCHANGED file

\* controller.py:111-114  try: transcribe_audio(...) except Exception: placeholder
Transcribe(w) ==
    /\ workers[w].pc = "transcribe"
    /\ \E ok \in Outcomes, segments \in SegmentLists :
         Put(w, IF ok
                THEN [workers[w] EXCEPT !.pc = "candidate",
                                        !.candidate_text = TranscribeText(segments)]
                ELSE [workers[w] EXCEPT !.pc = "candidate",
                                        !.candidate_text = Placeholder,
                                        !.transcribe_failed = TRUE])
    /\ Frame /\ UNCHANGED file

\* controller.py:115-116  transcript.append(candidate, text); emit transcript
CandidateAppend(w) ==
    /\ workers[w].pc = "candidate"
    /\ LET r == workers[w]
           es == append(r.entries, candidate_name, r.candidate_text)
           r1 == Log(Log(r, "append", candidate_name, r.candidate_text),
                     "notify", "", Rendering(es))
       IN /\ Put(w, emit_transcript([r1 EXCEPT !.entries = es,
                                               !.pc = "summary"]))
          /\ file' = Rendering(es)
    /\ Frame

\* controller.py:117-119  transcript.summary(llm); emit summary; final status
Summarize(w) ==
    /\ workers[w].pc = "summary"
    /\ LET r == [workers[w] EXCEPT !.summary_invoked = TRUE]
       IN \E ok \in Outcomes :
            Put(w, IF ok
                   THEN [emit_status(r, "Interview complete")
                           EXCEPT !.pc = "done", !.summary_out = TRUE,
                                  !.outcome = "returned"]
                   ELSE Die(r))
    /\ Frame /\ UNCHANGED file

\* ------------------------------------------------------- specification
Next ==
    \/ \E c \in CallerIds : StartCheck(c)
    \/ \E c \in CallerIds : StartEnsure(c)
    \/ \E c \in CallerIds : StartClear(c)
    \/ \E c \in CallerIds : StartCreate(c)
    \/ \E c \in CallerIds : StartLaunch(c)
    \/ stop
    \/ \E w \in WorkerIds : ParseCV(w)
    \/ \E w \in WorkerIds : BuildFlow(w)
    \/ \E w \in WorkerIds : Setup(w)
    \/ \E w \in WorkerIds : BridgeStart(w)
    \/ \E w \in WorkerIds : MakeVideoDir(w)
    \/ \E w \in WorkerIds : Launch(w)
    \/ \E w \in WorkerIds : Navigate(w)
    \/ \E w \in WorkerIds : Connected(w)
    \/ \E w \in WorkerIds : LoopCheck(w)
    \/ \E w \in WorkerIds : AskAppend(w)
    \/ \E w \in WorkerIds : Speak(w)
    \/ \E w \in WorkerIds : Followup(w)
    \/ \E w \in WorkerIds : Settle(w)
    \/ \E w \in WorkerIds : ResponseWindow(w)
    \/ \E w \in WorkerIds : Closing(w)
    \/ \E w \in WorkerIds : Leave(w)
    \/ \E w \in WorkerIds : SessionExit(w)
    \/ \E w \in WorkerIds : BridgeStop(w)
    \/ \E w \in WorkerIds : Transcribe(w)
    \/ \E w \in WorkerIds : CandidateAppend(w)
    \/ \E w \in WorkerIds : Summarize(w)

Spec == Init /\ [][Next]_vars

SpecMT == InitMT /\ [][Next]_vars

\* controller.py:63-119  the steps of the thread that runs _run / _async_run
async_run(w) ==
    \/ ParseCV(w) \/ BuildFlow(w) \/ Setup(w) \/ BridgeStart(w)
    \/ MakeVideoDir(w) \/ Launch(w) \/ Navigate(w) \/ Connected(w)
    \/ LoopCheck(w) \/ AskAppend(w) \/ Speak(w) \/ Followup(w) \/ Settle(w)
    \/ ResponseWindow(w) \/ Closing(w) \/ Leave(w) \/ SessionExit(w)
    \/ BridgeStop(w) \/ Transcribe(w) \/ CandidateAppend(w) \/ Summarize(w)

\* A started thread is scheduled, and every call it makes returns or raises:
\* the worker is never left forever before a step it can take.  Nothing is
\* assumed about the callers of start() and stop().
\* One starting thread, a key, every capability able to fail, and the plans
\* of every length whose steps have the most follow-ups.
InitLive ==
    /\ InitCommon
    /\ env = [starters |-> {1}, faults |-> TRUE,
              plans |-> { p \in Plans :
                            \A k \in 1..Len(p) : Len(p[k].followups) = MaxFollowups },
              llm |-> [provider |-> "openai", api_key |-> "sk-1"]]
    /\ flow = FlowNew(NoReply)

SpecLive ==
    InitLive /\ [][Next]_vars /\ \A w \in WorkerIds : WF_vars(async_run(w))

---------------------------------------------------------------------------
\* SystemAudioRecorder (audio.py:14-81): the device callback, the writer
\* thread, and the thread that calls start() and then stop() as AudioBridge
\* does (audio.py:113-117, controller.py:83 and 110).

Control == UNCHANGED <<stop_event, thread, nthreads, workers, cpc, result, env,
                       flow, file, cutoff, since, gui>>

\* audio.py:35-43  mkdir, open the SoundFile, _running.set()
recorder_start_open ==
    /\ rec.upc = "new"
    /\ rec' = [rec EXCEPT !.writer = "open", !.running = TRUE, !.upc = "opened"]
    /\ Control

\* audio.py:44-50  create and start the InputStream
recorder_start_stream ==
    /\ rec.upc = "opened"
    /\ rec' = [rec EXCEPT !.stream = "active", !.upc = "streaming"]
    /\ Control

\* audio.py:51-52  create and start the writer thread; start() returns
recorder_start_thread ==
    /\ rec.upc = "streaming"
    /\ rec' = [rec EXCEPT !.wpc = "test", !.upc = "started"]
    /\ Control

\* audio.py:54-57  _callback: the device delivers a buffer while the stream is
\* active; Queue() has no maxsize (audio.py:28), so put never blocks
callback ==
    /\ rec.stream = "active"
    /\ rec.frames < MaxFrames
    /\ rec' = [rec EXCEPT !.frames = @ + 1, !.queue = Append(@, rec.frames + 1)]
    /\ Control

\* the writer loop that closes the file as soon as it sees _running cleared.
writer_loop_test_NoDrain ==
    /\ rec.wpc = "test"
    /\ rec' = [rec EXCEPT !.wpc = IF rec.running THEN "get" ELSE "flush"]
    /\ Control

\* audio.py:61  while self._running.is_set()
writer_loop_test ==
    /\ rec.wpc = "test"
    /\ rec' = [rec EXCEPT !.wpc = IF rec.running THEN "get" ELSE "drain_test"]
    /\ Control

\* audio.py:62-65  get(timeout=0.25): the head of the queue, or queue.Empty
\* and back to the loop test
writer_loop_get ==
    /\ rec.wpc = "get"
    /\ rec' = IF rec.queue # <<>>
              THEN [rec EXCEPT !.data = Head(rec.queue), !.queue = Tail(@),
                               !.wpc = "write"]
              ELSE [rec EXCEPT !.wpc = "test"]
    /\ Control

\* audio.py:66  self._writer.write(data)
writer_loop_write ==
    /\ rec.wpc = "write"
    /\ rec' = [rec EXCEPT !.written = Append(@, rec.data), !.data = 0,
                          !.wpc = "test"]
    /\ Control

\* audio.py:67  while not self._queue.empty()
writer_loop_drain_test ==
    /\ rec.wpc = "drain_test"
    /\ rec' = [rec EXCEPT !.wpc = IF rec.queue # <<>> THEN "drain_get" ELSE "flush"]
    /\ Control

\* audio.py:68  get(): blocks until the queue has an item
writer_loop_drain_get ==
    /\ rec.wpc = "drain_get"
    /\ rec.queue # <<>>
    /\ rec' = [rec EXCEPT !.data = Head(rec.queue), !.queue = Tail(@),
                          !.wpc = "drain_write"]
    /\ Control

\* audio.py:69  self._writer.write(data)
writer_loop_drain_write ==
    /\ rec.wpc = "drain_write"
    /\ rec' = [rec EXCEPT !.written = Append(@, rec.data), !.data = 0,
                          !.wpc = "drain_test"]
    /\ Control

\* audio.py:70-72  flush, close, self._writer = None; the thread ends
writer_loop_close ==
    /\ rec.wpc = "flush"
    /\ rec' = [rec EXCEPT !.writer = "closed", !.wpc = "done"]
    /\ Control

\* audio.py:75  stop(): self._running.clear()
recorder_stop_clear ==
    /\ rec.upc = "started"
    /\ rec' = [rec EXCEPT !.running = FALSE, !.upc = "stopping",
                          !.stop_called = TRUE, !.at_stop = rec.queue]
    /\ Control

\* audio.py:76-79  stop and close the stream, self._stream = None
recorder_stop_stream ==
    /\ rec.upc = "stopping"
    /\ rec' = [rec EXCEPT !.stream = "none", !.upc = "joining"]
    /\ Control

\* audio.py:80-81  join(timeout=2): returns when the writer thread has ended
\* or after the timeout, whichever comes first
recorder_stop_join ==
    /\ rec.upc = "joining"
    /\ rec' = [rec EXCEPT !.upc = "stopped"]
    /\ Control

NextRecorder ==
    \/ recorder_start_open
    \/ recorder_start_stream
    \/ recorder_start_thread
    \/ callback
    \/ writer_loop_test
    \/ writer_loop_get
    \/ writer_loop_write
    \/ writer_loop_drain_test
    \/ writer_loop_drain_get
    \/ writer_loop_drain_write
    \/ writer_loop_close
    \/ recorder_stop_clear
    \/ recorder_stop_stream
    \/ recorder_stop_join

\* one recorder, used the way _async_run uses it: start() once, stop() once
InitRecorder ==
    /\ InitCommon
    /\ env = [starters |-> {}, faults |-> FALSE, plans |-> {},
              llm |-> [provider |-> "openai", api_key |-> "sk-1"]]
    /\ flow = FlowNew(NoReply)

SpecRecorder == InitRecorder /\ [][NextRecorder]_vars

---------------------------------------------------------------------------
\* InterviewFlow.build as a function of the reply (interview_flow.py:43-93).

\* interview_flow.py:61-82  build(): the reply arrives and is parsed
Build ==
    /\ flow.status = "none"
    /\ LET b == build(Content(flow.reply))
       IN flow' = [flow EXCEPT !.status = b.status, !.steps = b.steps]
    /\ UNCHANGED <<stop_event, thread, nthreads, workers, cpc, result, env,
                   rec, file, cutoff, since, gui>>

NextBuild == Build

InitBuild ==
    /\ InitCommon
    /\ env = [starters |-> {}, faults |-> FALSE, plans |-> {},
              llm |-> [provider |-> "openai", api_key |-> "sk-1"]]
    /\ \E reply \in Replies : flow = FlowNew(reply)

SpecBuild == InitBuild /\ [][NextBuild]_vars

---------------------------------------------------------------------------
\* InterviewWindow (main.py:114-136): the Start and Stop buttons, and the
\* worker of each controller the window made, every controller with its own
\* flag and thread.  The slots run on the GUI thread, one at a time.

Desk == UNCHANGED <<stop_event, thread, nthreads, workers, cpc, result, env,
                    rec, flow, file, cutoff, since>>

\* The workers of the window's controllers that are alive.
AliveControllers == { k \in ControllerIds : gui.ctl[k].thread = "alive" }

\* main.py:114-130  _start: the warning when a controller is held, the error
\* box when the form is invalid; otherwise a new controller is stored and its
\* start() is called, which with no thread yet passes the is_alive test and,
\* unless ensure_paths raises, clears the flag and starts the thread
_start ==
    /\ \/ gui.controller # 0
       \/ gui.created < MaxControllers
    /\ \E valid \in BOOLEAN, ok \in BOOLEAN :
         gui' =
           IF gui.controller # 0 THEN [gui EXCEPT !.log = "Interview running"]
           ELSE IF ~valid THEN [gui EXCEPT !.log = "Invalid input"]
           ELSE LET k == gui.created + 1
                IN [gui EXCEPT !.controller = k, !.created = k,
                               !.log = "Launching interview workflow",
                               !.ctl[k] =
                                   IF ok
                                   THEN [@ EXCEPT !.stop_event = FALSE,
                                                  !.thread = "alive",
                                                  !.pc = "prepare"]
                                   ELSE @]
    /\ Desk

\* main.py:132-136  _stop: controller.stop() sets the flag of the controller
\* held; the window forgets the controller
_stop ==
    /\ gui.controller # 0
    /\ gui' = [gui EXCEPT !.ctl[gui.controller].stop_event = TRUE,
                          !.log = "Stop requested",
                          !.controller = 0]
    /\ Desk

\* controller.py:68-94  the worker up to the loop: it gets its plan and
\* connects, or an exception ends the thread
worker_prepare(k) ==
    /\ gui.ctl[k].pc = "prepare"
    /\ \E ok \in BOOLEAN, n \in 0..MaxSteps :
         gui' = IF ok THEN [gui EXCEPT !.ctl[k].pc = "check", !.ctl[k].n = n]
                      ELSE [gui EXCEPT !.ctl[k].pc = "ended",
                                       !.ctl[k].thread = "ended"]
    /\ Desk

\* controller.py:95-97  the boundary check of the worker's own controller
worker_check(k) ==
    /\ gui.ctl[k].pc = "check"
    /\ gui' = IF gui.ctl[k].i > gui.ctl[k].n \/ gui.ctl[k].stop_event
              THEN [gui EXCEPT !.ctl[k].pc = "teardown"]
              ELSE [gui EXCEPT !.ctl[k].pc = "step"]
    /\ Desk

\* controller.py:98-106  one step: question, speak, waits
worker_step(k) ==
    /\ gui.ctl[k].pc = "step"
    /\ \E ok \in BOOLEAN :
         gui' = IF ok THEN [gui EXCEPT !.ctl[k].pc = "check", !.ctl[k].i = @ + 1]
                      ELSE [gui EXCEPT !.ctl[k].pc = "teardown"]
    /\ Desk

\* controller.py:107-119  closing message, leave, bridge stop, transcription,
\* summary; the thread ends
worker_teardown(k) ==
    /\ gui.ctl[k].pc = "teardown"
    /\ gui' = [gui EXCEPT !.ctl[k].pc = "ended", !.ctl[k].thread = "ended"]
    /\ Desk

NextWindow ==
    \/ _start
    \/ _stop
    \/ \E k \in ControllerIds : worker_prepare(k)
    \/ \E k \in ControllerIds : worker_check(k)
    \/ \E k \in ControllerIds : worker_step(k)
    \/ \E k \in ControllerIds : worker_teardown(k)

InitWindow ==
    /\ InitCommon
    /\ env = [starters |-> {}, faults |-> TRUE, plans |-> {},
              llm |-> [provider |-> "openai", api_key |-> "sk-1"]]
    /\ flow = FlowNew(NoReply)

SpecWindow == InitWindow /\ [][NextWindow]_vars

\* ------------------------------------------------------------ properties
Last(q) == q[Len(q)]

Done(w) == workers[w].pc = "done"

\* The status messages that report a terminal state of the session.
TerminalReports == {"Interview complete", "Interview cancelled", "Interview failed"}

CandidateEntries(entries) ==
    { n \in 1..Len(entries) : entries[n][1] = candidate_name }

\* The ledger entries of one step: its question, then its follow-up annotations.
StepEntries(step) ==
    <<Line(interviewer_name, step.question)>> \o
    [x \in 1..Len(step.followups) |->
        Line(interviewer_name, FollowupText(step.followups[x]))]

RECURSIVE PlanEntries(_)
PlanEntries(plan) ==
    IF plan = <<>> THEN <<>> ELSE StepEntries(Head(plan)) \o PlanEntries(Tail(plan))

\* C1: a session whose loop ended because the worker saw the stop flag at a
\* step boundary never ends with the status notification that the interview
\* completed.
C1_CancelledNeverComplete ==
    \A w \in WorkerIds :
        (Done(w) /\ workers[w].loop_end = "cancelled")
        => Last(workers[w].status) # "Interview complete"

\* C2: once the remote session was acquired, however the loop ended, the
\* worker has attempted the closing message and the leave and has stopped the
\* Audio Bridge by the time it ends.
C2_TeardownOnEveryExit ==
    \A w \in WorkerIds :
        (Done(w) /\ workers[w].acquired)
        => /\ workers[w].closing # "none"
           /\ workers[w].left # "none"
           /\ workers[w].bridge \in {"stopped", "stop_failed"}

\* C3: in a session whose loop ended by completion or cancellation, a failed
\* closing message does not prevent the leave, a failed closing message or
\* leave does not prevent the stop of the Audio Bridge, and after a failure of
\* any of the three the candidate entry is still appended.
C3_TeardownIndependent ==
    \A w \in WorkerIds :
        (Done(w) /\ workers[w].loop_end \in {"exhausted", "cancelled"}) =>
          /\ (workers[w].closing = "failed" => workers[w].left # "none")
          /\ (workers[w].closing = "failed" \/ workers[w].left = "failed"
                => workers[w].bridge \in {"stopped", "stop_failed"})
          /\ (workers[w].closing = "failed" \/ workers[w].left = "failed"
                \/ workers[w].bridge = "stop_failed"
                => CandidateEntries(workers[w].entries) # {})

\* C4: every session that ends has a last status notification that reports
\* its terminal state, and a session whose summary failed gave no summary.
C4_FinalStatusReportsTerminalState ==
    \A w \in WorkerIds :
        Done(w) =>
          /\ workers[w].status # <<>>
          /\ Last(workers[w].status) \in TerminalReports
          /\ (workers[w].outcome = "raised" => ~workers[w].summary_out)

\* C5: a start() that makes its check while the controller's worker is alive
\* raises "already running" and changes neither the flag, the thread
\* reference, the workers nor the transcript file.
C5_StartRejectedWhileRunning ==
    [][\A c \in CallerIds :
         (/\ cpc[c] = "idle"
          /\ thread # 0 /\ is_alive(thread)
          /\ (cpc'[c] # cpc[c] \/ result'[c] # result[c]))
         => /\ result'[c] = "already_running"
            /\ UNCHANGED <<stop_event, thread, nthreads, workers, cpc, file>>]_vars

\* C5 witness: a start() was rejected while a worker runs and a stop is pending.
C5_Witness ==
    \E c \in CallerIds :
        /\ result[c] = "already_running"
        /\ thread # 0 /\ is_alive(thread)
        /\ stop_event

\* C6: at most one worker of the controller is alive at any time.
C6_AtMostOneWorker == Cardinality(AliveWorkers) <= 1

\* C7: stop() can be called in every state and returns; called while the
\* flag is set it changes nothing of the controller, its workers or the file.
C7_StopIdempotent ==
    /\ ENABLED stop
    /\ stop_event =>
         ~ENABLED (stop /\ <<stop_event, thread, nthreads, workers, cpc,
                             result, env, file>>' #
                           <<stop_event, thread, nthreads, workers, cpc,
                             result, env, file>>)

\* C7 witness: stop() was called before any start() and the flag is set;
\* further calls are possible there and change nothing.
C7_Witness ==
    /\ stop_event
    /\ nthreads = 0
    /\ \A c \in CallerIds : cpc[c] = "idle" /\ result[c] = "none"

\* C8: after a stop() made when the boundary check of step k was still to
\* come, no step from k on has its question appended or spoken (k is the step
\* after the one in flight, if one was); and when the loop ends by
\* cancellation every step that was begun ran to its end.
C8_NoStepAfterStop ==
    \A w \in WorkerIds :
        /\ cutoff[w] # 0 =>
             /\ \A n \in 1..Len(workers[w].processed) :
                    workers[w].processed[n] < cutoff[w]
             /\ Len(workers[w].spoken) < cutoff[w]
        /\ workers[w].loop_end = "cancelled" =>
             /\ Len(workers[w].processed) = workers[w].i - 1
             /\ Len(workers[w].spoken) = workers[w].i - 1

\* C8 witness: a two-step session was stopped while step 1 was in flight; it
\* ended by cancellation with step 1 done and step 2 untouched.
C8_Witness ==
    \E w \in WorkerIds :
        /\ Done(w) /\ workers[w].loop_end = "cancelled"
        /\ Len(workers[w].steps) = 2
        /\ cutoff[w] = 2
        /\ workers[w].processed = <<1>>
        /\ Len(workers[w].spoken) = 1

LoopPcs == StepPcs \cup {"check"}

\* C9: when the loop ran through a plan of N >= 1 steps and the candidate
\* entry was appended, the steps were processed in index order and the ledger
\* is the N question entries in plan order, each followed by its follow-up
\* annotations, then the one candidate entry; inside the loop the ledger has
\* no candidate entry.
C9_LedgerOrder ==
    \A w \in WorkerIds :
        /\ workers[w].pc \in LoopPcs => CandidateEntries(workers[w].entries) = {}
        /\ (/\ workers[w].loop_end = "exhausted"
            /\ Len(workers[w].steps) >= 1
            /\ workers[w].pc = "summary" \/ workers[w].summary_invoked)
           => /\ workers[w].processed = [n \in 1..Len(workers[w].steps) |-> n]
              /\ workers[w].entries =
                   PlanEntries(workers[w].steps) \o
                   <<Line(candidate_name, workers[w].candidate_text)>>
              /\ CandidateEntries(workers[w].entries) = {Len(workers[w].entries)}

\* C9 witness: a two-step plan with a follow-up ran to the end without fault.
C9_Witness ==
    \E w \in WorkerIds :
        /\ Done(w) /\ workers[w].outcome = "returned"
        /\ workers[w].loop_end = "exhausted"
        /\ Len(workers[w].steps) = 2
        /\ Len(workers[w].steps[1].followups) = 1
        /\ ~workers[w].transcribe_failed

\* C10: once transcription has failed and the worker has moved on, the ledger
\* holds exactly one candidate entry, the last one, made of the candidate's
\* label and the placeholder, and the worker does not end before the summary
\* generation was invoked.
C10_TranscriptionFailureDegrades ==
    \A w \in WorkerIds :
        (workers[w].transcribe_failed /\ workers[w].pc # "candidate")
        => /\ workers[w].pc \in {"summary", "done"}
           /\ CandidateEntries(workers[w].entries) = {Len(workers[w].entries)}
           /\ Last(workers[w].entries) = <<candidate_name, ": ">> \o Placeholder
           /\ (Done(w) => workers[w].summary_invoked)

\* C10 witness: transcription failed and the summary was invoked afterwards.
C10_Witness ==
    \E w \in WorkerIds :
        /\ workers[w].transcribe_failed
        /\ Done(w) /\ workers[w].summary_invoked

\* C11: with a missing provider credential a started worker never gets past
\* plan building: it opens no browser and acquires no remote session, and it
\* ends with the exception; when it got as far as the generation call the
\* exception is the missing-key error.
C11_MissingKeyFailsBeforeConnect ==
    \A w \in WorkerIds :
        (env.llm.api_key = NoKey /\ workers[w].pc \notin {"unborn", "created", "reaped"})
        => /\ workers[w].pc \in {"parse", "build", "done"}
           /\ workers[w].playwright = "none"
           /\ workers[w].browser = "none"
           /\ ~workers[w].acquired
           /\ (Done(w) => /\ workers[w].outcome = "raised"
                          /\ (Len(workers[w].status) = 2
                                => workers[w].exc = "api_key_required"))

\* C11 witness: a worker without credential ended in the missing-key error.
C11_Witness ==
    \E w \in WorkerIds :
        /\ env.llm.api_key = NoKey
        /\ Done(w) /\ workers[w].exc = "api_key_required"

Range(q) == { q[k] : k \in 1..Len(q) }

Increasing(q) == \A a, b \in 1..Len(q) : a < b => q[a] < q[b]

\* C12: once the writer has closed the file after stop(), every frame that was
\* in the queue at the call of stop() is in the file, and the file holds the
\* frames in the order the device delivered them.
C12_StopDrainsQueue ==
    (rec.stop_called /\ rec.writer = "closed")
    => /\ Range(rec.at_stop) \subseteq Range(rec.written)
       /\ Increasing(rec.written)

\* C12 witness: stop() found two frames queued and the file is closed.
C12_Witness ==
    /\ rec.stop_called /\ rec.writer = "closed"
    /\ Len(rec.at_stop) >= 2

\* The append(speaker, text) calls a worker has made, in order.
AppendCalls(w) == SelectSeq(workers[w].events, LAMBDA e : e[1] = "append")

\* "{speaker}: {trimmed text}" for each call, joined by newlines.
ExpectedFile(calls) ==
    Join("\n", [k \in 1..Len(calls) |-> <<calls[k][2], ": ">> \o Strip(calls[k][3])])

IsPrefix(a, b) == Len(a) <= Len(b) /\ SubSeq(b, 1, Len(a)) = a

\* C13: once the current session's ledger has completed N >= 1 appends, it
\* holds N entries and the transcript file is the newline join of the N calls
\* rendered "{speaker}: {trimmed text}" in call order; every step leaves the
\* old entries of a ledger as a prefix of its new entries, and the file of a
\* ledger as a prefix of its new content.
C13_LedgerRoundTrip ==
    /\ [](\A w \in WorkerIds :
            /\ Len(workers[w].entries) = Len(AppendCalls(w))
            /\ (w = thread /\ AppendCalls(w) # <<>>)
                 => file = ExpectedFile(AppendCalls(w)))
    /\ [][\A w \in WorkerIds :
            workers'[w].pc # "reaped"
            => /\ IsPrefix(workers[w].entries, workers'[w].entries)
               /\ (w = thread /\ w = thread' /\ workers[w].entries # <<>>)
                    => IsPrefix(file, file')]_vars

\* C13 witness: a ledger with three completed appends, one of a text that had
\* blanks to trim, and the file holding their rendering.
C13_Witness ==
    \E w \in WorkerIds :
        /\ w = thread /\ Len(AppendCalls(w)) >= 3
        /\ \E k \in 1..Len(AppendCalls(w)) :
              Strip(AppendCalls(w)[k][3]) # AppendCalls(w)[k][3]
        /\ file = ExpectedFile(AppendCalls(w))

\* C14: a reply that wraps a plan array in a fenced block, with or without a
\* language tag and with or without prose around the block, makes build()
\* end as it ends on the bare array.
C14_FencedSameAsBare ==
    (flow.status # "none" /\ flow.reply.fenced)
    => LET bare == build(flow.reply.array)
       IN flow.status = bare.status /\ flow.steps = bare.steps

\* C15: a successful build() returns at least one step.
C15_SuccessfulPlanNonEmpty ==
    flow.status = "ok" => Len(flow.steps) >= 1

\* C16: a worker that started the Audio Bridge does not end while the bridge
\* is still running: on every exit path stop() has been called on it.
C16_BridgeStoppedOnEveryExit ==
    \A w \in WorkerIds :
        (Done(w) /\ workers[w].bridge # "none") => workers[w].bridge # "running"

\* C17: a worker that launched the browser does not end with the browser
\* still open: on every exit path it has been closed.
C17_BrowserReleasedOnEveryExit ==
    \A w \in WorkerIds :
        (Done(w) /\ workers[w].browser # "none") => workers[w].browser = "closed"

C19_StopOnlySetsFlag ==
    [][/\ (~stop_event /\ stop_event')
            => UNCHANGED <<thread, nthreads, workers, cpc, result, env, rec,
                           flow, file>>
       /\ \A w \in WorkerIds :
            (workers[w].loop_end # "cancelled" /\ workers'[w].loop_end = "cancelled")
            => /\ workers[w].pc = "check"
               /\ stop_event
               /\ workers'[w].pc = "closing"]_vars

\* C19 witness: stop() came while a worker was inside a step; the flag is set
\* and the worker is still at the speak of that step, not cancelled.
C19_Witness ==
    \E w \in WorkerIds :
        /\ stop_event
        /\ workers[w].pc = "speak"
        /\ cutoff[w] = workers[w].i + 1
        /\ workers[w].loop_end = "none"

\* The calls of one step, in the order the claim fixes; the argument of the
\* notification is left out here and checked apart.
StepCalls(step) ==
    << <<"append", interviewer_name, step.question>>,
       <<"notify", "", <<>> >>,
       <<"speak", "", step.question>> >>
    \o [k \in 1..Len(step.followups) |->
           <<"append", interviewer_name, FollowupText(step.followups[k])>>]
    \o << <<"settle", "", <<>> >>, <<"window", "", <<>> >> >>

RECURSIVE PlanCalls(_, _)
PlanCalls(steps, m) ==
    IF m = 0 THEN <<>> ELSE PlanCalls(steps, m - 1) \o StepCalls(steps[m])

\* events with the argument of every notification blanked
Shape(events) ==
    [k \in 1..Len(events) |->
        IF events[k][1] = "notify" THEN <<"notify", "", <<>> >> ELSE events[k]]

\* C20: the calls a worker has made are, step after step in plan order,
\* append question, notify, speak question, append each follow-up, settle
\* wait, response window (possibly cut inside the last step begun, or followed
\* after whole steps by the candidate's entry and its notification); every
\* notification carries the rendering of the ledger as appended so far; the
\* texts spoken are exactly the questions of the steps begun, one each.
C20_StepOrder ==
    \A w \in WorkerIds :
        LET r == workers[w]
            ev == r.events
        IN /\ \E m \in 0..Len(r.steps) :
                \/ IsPrefix(Shape(ev), PlanCalls(r.steps, m))
                \/ Shape(ev) = PlanCalls(r.steps, m)
                                 \o << <<"append", candidate_name, r.candidate_text>>,
                                       <<"notify", "", <<>> >> >>
           /\ \A p \in 1..Len(ev) :
                ev[p][1] = "notify"
                => ev[p][3] = ExpectedFile(SelectSeq(SubSeq(ev, 1, p),
                                                     LAMBDA e : e[1] = "append"))
           /\ LET speaks == SelectSeq(ev, LAMBDA e : e[1] = "speak")
              IN /\ Len(speaks) <= Len(r.steps)
                 /\ \A k \in 1..Len(speaks) : speaks[k][3] = r.steps[k].question
                 /\ r.spoken = [k \in 1..Len(speaks) |-> speaks[k][3]]

\* C20 witness: a worker has gone through two whole steps that have a
\* follow-up each.
C20_Witness ==
    \E w \in WorkerIds :
        /\ Len(SelectSeq(workers[w].events, LAMBDA e : e[1] = "window")) = 2
        /\ \A k \in 1..2 : Len(workers[w].steps[k].followups) = 1

\* The fenced segments of a text: the parts that lie between an opening and a
\* closing fence, in order.
FencedSegments(text) ==
    LET parts == Split(text)
    IN [k \in 1..((Len(parts) - 1) \div 2) |-> parts[2 * k]]

\* The segments whose trimmed content starts with "[" and ends with "]".
Bracketed(segments) ==
    SelectSeq([k \in 1..Len(segments) |-> Strip(segments[k])],
              LAMBDA c : c # <<>> /\ c[1] = "[" /\ c[Len(c)] = "]")

\* C21: when the strict parse of the whole response fails, build() returns
\* the plan of the first fenced segment that is bracketed, and fails with the
\* plan-parse error (LLMClientError) when there is no such segment or the
\* segment is not a plan; it never ends in another error and never takes text
\* from outside the fences.
C21_FirstFencedSegmentOrParseError ==
    LET raw == Content(flow.reply)
        hits == Bracketed(FencedSegments(raw))
    IN (flow.status # "none" /\ ~json_loads(raw).ok)
       => IF hits # <<>> /\ json_loads(hits[1]).ok
          THEN flow.status = "ok" /\ flow.steps = Steps(json_loads(hits[1]).data)
          ELSE flow.status = "LLMClientError"

\* C22: the capture queue is bounded: a capacity smaller than the number of
\* frames the device delivers limits its length, the producer waiting when
\* the queue is full.
C22_QueueBounded == Len(rec.queue) < MaxFrames

\* C25: once the writer has closed the file, every frame the callback has put
\* into the queue is in the file and none is left in the queue; and the file
\* does not change after it was closed.
C25_NoFrameLost ==
    /\ [](rec.writer = "closed"
            => /\ rec.queue = <<>>
               /\ Range(rec.written) = 1..rec.frames)
    /\ [][rec.writer = "closed" => rec.written' = rec.written]_vars

\* C23: a worker never goes past the boundary check that follows the last
\* step of its plan; a worker inside the interviewing loop eventually is out
\* of it; and a started worker eventually ends. No stop() is needed for it.
C23_WorkerTerminates ==
    /\ [](\A w \in WorkerIds : workers[w].i <= Len(workers[w].steps) + 1)
    /\ \A w \in WorkerIds :
          (workers[w].pc \in LoopPcs) ~> (workers[w].pc \notin LoopPcs)
    /\ \A w \in WorkerIds :
          (workers[w].pc = "parse") ~> Done(w)

\* C23 witness: a worker went through every step of a two-step plan, no
\* stop() having been called, and has ended.
C23_Witness ==
    \E w \in WorkerIds :
        /\ Done(w) /\ workers[w].loop_end = "exhausted"
        /\ Len(workers[w].steps) = 2 /\ workers[w].processed = <<1, 2>>
        /\ ~stop_event /\ cutoff[w] = 0

\* C24: when the worker of the controller has ended, a start() is not
\* rejected; the start() that completes returns normally and leaves a new
\* worker running with an empty ledger; and a worker's loop ends by
\* cancellation only when a stop() was made after the clear() of the last
\* start(): stop() calls made before it do not cancel the new session.
C24_RestartFresh ==
    [][/\ \A c \in CallerIds :
            (/\ cpc[c] = "idle" /\ thread # 0 /\ Done(thread)
             /\ (cpc'[c] # cpc[c] \/ result'[c] # result[c]))
            => cpc'[c] = "checked"
       /\ \A c \in CallerIds :
            (cpc[c] = "created" /\ cpc'[c] = "idle")
            => /\ result'[c] = "ok"
               /\ workers'[thread].pc = "parse"
               /\ workers'[thread].entries = <<>>
               /\ workers'[thread].loop_end = "none"
       /\ \A w \in WorkerIds :
            (workers[w].loop_end # "cancelled" /\ workers'[w].loop_end = "cancelled")
            => since = "stopped"]_vars

\* C24 witness: the second session of a controller, whose start() erased the
\* flag a stop() had set, has processed a step and no stop() came since.
C24_Witness ==
    /\ thread = 2 /\ nthreads = 2
    /\ since = "erased" /\ ~stop_event
    /\ workers[2].processed # <<>>

\* C26: of the workers of the controllers one window has created, at most
\* one is alive at any time.
C26_OneWorkerPerWindow == Cardinality(AliveControllers) <= 1
====
